---- MODULE Spec2Model ----
(***************************************************************************)
(* A model of pipeline.py: the side-input resolver process_artists and the *)
(* cartesian merge UnSetCoGroup.process, alone and composed as in main().  *)
(***************************************************************************)
EXTENDS Integers, Sequences, FiniteSets, TLC

VARIABLES
    gender,     \* side input: list of gender {id, name} entries
    area,       \* side input: list of area {id, name} entries
    row,        \* the artist row handed to process_artists
    out,        \* what process_artists returned (or raised)
    again,      \* the resolution loops applied a second time to out
    stage,      \* 0: a lone UnSetCoGroup step; 1, 2: the two merges of main(); 3: written
    artists,    \* pipeline input: resolved artist records
    credits,    \* pipeline input: artist_credit_name records
    recordings, \* pipeline input: recording records
    grouped,    \* CoGroupByKey output: key -> (source list, joined list), as grouped
    excl,       \* exclude_join_field
    part,       \* key -> the worker its element is routed to
    wpc,        \* worker -> position inside the generator it is running
    heap,       \* current field values of every dict of every source list
    emitted,    \* key -> the yields of process(), with the value at the yield
    received,   \* key -> the values the downstream step read from the yielded dicts
    done        \* keys whose generator is exhausted

resolveVars == <<gender, area, row, out, again>>
pipeVars    == <<stage, artists, credits, recordings>>
mergeVars   == <<grouped, excl, part, wpc, heap, emitted, received, done>>
vars        == <<gender, area, row, out, again, stage, artists, credits, recordings,
                 grouped, excl, part, wpc, heap, emitted, received, done>>

----------------------------------------------------------------------------
(* Python values: None, int, str, bool, with == and truthiness.            *)

Null     == [tag |-> "null", n |-> 0, s |-> ""]
IntV(i)  == [tag |-> "int",  n |-> i, s |-> ""]
StrV(t)  == [tag |-> "str",  n |-> 0, s |-> t]
BoolV(b) == [tag |-> "bool", n |-> IF b THEN 1 ELSE 0, s |-> ""]

\* a == b: bool is an int, None and str equal only themselves
PyEq(a, b) ==
    IF a.tag \in {"int", "bool"} /\ b.tag \in {"int", "bool"} THEN a.n = b.n ELSE a = b

Truthy(v) == \/ v.tag \in {"int", "bool"} /\ v.n # 0
             \/ v.tag = "str" /\ v.s # ""

\* bounds of the resolver's inputs
MaxId    == 1
MaxTable == 2
Names    == {"Male", "Other"}

SeqsUpTo(S, n) == UNION {[1..m -> S] : m \in 0..n}

----------------------------------------------------------------------------
(* process_gender_or_area and process_artists                              *)

process_gender_or_area(i, nm) == [id |-> i, name |-> nm]

RefEntries == {process_gender_or_area(IntV(i), StrV(nm)) : i \in 0..MaxId, nm \in Names}

\* reference tables: ids unique within a table
Tables == {t \in SeqsUpTo(RefEntries, MaxTable) :
             \A i, j \in DOMAIN t : t[i].id = t[j].id => i = j}

RawFields == {"id", "gid", "name", "area", "gender"}

\* a faulty variant: compares the numeric payload only, whatever the type
entry_matches_loose(e, cur) == e.id.n = cur.n
\* g['id'] == reduced_row['gender'], a['id'] == reduced_row['area']
entry_matches(e, cur) == PyEq(e.id, cur)

\* for g in table: if g['id'] == cur: cur = g['name']   (the scan goes on after a hit)
RECURSIVE scan_table(_, _, _)
scan_table(cur, table, i) ==
    IF i > Len(table) THEN cur
    ELSE scan_table(IF entry_matches(table[i], cur) THEN table[i].name ELSE cur,
                    table, i + 1)

reduced_row(r) ==
    ("id" :> r["id"]) @@ ("artist_gid" :> r["gid"]) @@ ("artist_name" :> r["name"])
    @@ ("area" :> r["area"]) @@ ("gender" :> r["gender"])

\* a faulty variant: the gender loop without `if reduced_row['gender']:`
resolve_gender_unguarded(r, g) == [r EXCEPT !["gender"] = scan_table(r["gender"], g, 1)]
resolve_gender(r, g) ==
    IF Truthy(r["gender"])
    THEN [r EXCEPT !["gender"] = scan_table(r["gender"], g, 1)]
    ELSE r

resolve_area(r, a) == [r EXCEPT !["area"] = scan_table(r["area"], a, 1)]

\* lines 30-36 on an already projected record
resolve(r, g, a) == resolve_area(resolve_gender(r, g), a)

NoRec == <<>>

process_artists(r, g, a) ==
    IF ~(RawFields \subseteq DOMAIN r)
    THEN [status |-> "KeyError", key |-> Null, rec |-> NoRec]
    ELSE LET res == resolve(reduced_row(r), g, a)
         IN  [status |-> "ok", key |-> res["id"], rec |-> res]

FieldVals == {Null, StrV("")} \cup {StrV(nm) : nm \in Names}
             \cup {IntV(i) : i \in 0..(MaxId + 1)}

ArtistRow(a, g) ==
    ("id" :> IntV(5)) @@ ("gid" :> StrV("g1")) @@ ("name" :> StrV("Bob"))
    @@ ("area" :> a) @@ ("gender" :> g)

Restrict(f, D) == [x \in D |-> f[x]]

\* rows as json.loads delivers them: complete, or with one field missing
ArtistRows ==
    LET full == {ArtistRow(a, g) : a \in FieldVals, g \in FieldVals}
    IN  full \cup {Restrict(r, RawFields \ {f}) : r \in full, f \in {"gid", "gender"}}

----------------------------------------------------------------------------
(* The resolver as a state machine: one row through 'Process artists'.     *)

NoOut == [status |-> "none", key |-> Null, rec |-> NoRec]

ResolveIdle ==
    /\ gender = <<>> /\ area = <<>> /\ row = NoRec /\ out = NoOut /\ again = NoOut

ProcessArtists ==
    /\ row # NoRec
    /\ out.status = "none"
    /\ out' = process_artists(row, gender, area)
    /\ UNCHANGED <<gender, area, row, again>>
    /\ UNCHANGED <<pipeVars, mergeVars>>

\* the two lookup loops run once more over the record they produced
ResolveAgain ==
    /\ out.status = "ok"
    /\ again.status = "none"
    /\ again' = [status |-> "ok", key |-> out.key, rec |-> resolve(out.rec, gender, area)]
    /\ UNCHANGED <<gender, area, row, out>>
    /\ UNCHANGED <<pipeVars, mergeVars>>

----------------------------------------------------------------------------
(* UnSetCoGroup.process as a generator: one step per yield.                *)

\* bounds of the merge's inputs
MaxSources == 2
MaxJoins   == 2
Workers    == {"w1", "w2"}

\* a faulty variant: the copy loop without the test against exclude_join_field
copy_fields_all(src, join, ex) ==
    [f \in DOMAIN src \cup DOMAIN join |-> IF f \in DOMAIN join THEN join[f] ELSE src[f]]
\* for k, v in join.items(): if k != exclude_join_field: src[k] = v
copy_fields(src, join, ex) ==
    LET ks == DOMAIN join \ {ex}
    IN  [f \in DOMAIN src \cup ks |-> IF f \in ks THEN join[f] ELSE src[f]]

sources_of(g) == g.src
\* a faulty variant: the source list read under the joined name too
joins_of_source(g) == g.src
joins_of(g) == g.jn

\* a faulty variant: the i-th dict of every key's source list is one shared object
LocShared(k, i) == <<Null, i>>
\* the identity of the dict that `src` names: the i-th of key k's own source list
Loc(k, i) == <<k, i>>

\* process() run to its end by one worker with nothing in between: the values
\* at its yields, in order
RECURSIVE run_joins(_, _, _, _)
run_joins(src, joins, j, ex) ==
    IF j > Len(joins) THEN <<>>
    ELSE LET new == copy_fields(src, joins[j], ex)
         IN  <<new>> \o run_joins(new, joins, j + 1, ex)

RECURSIVE run_sources(_, _, _, _)
run_sources(sources, joins, i, ex) ==
    IF i > Len(sources) THEN <<>>
    ELSE run_joins(sources[i], joins, 1, ex) \o run_sources(sources, joins, i + 1, ex)

process(g, ex) == run_sources(sources_of(g), joins_of(g), 1, ex)

KeysOf(g) == DOMAIN g

HeapOf(g) ==
    LET live == UNION {{<<k, i>> : i \in 1..Len(sources_of(g[k]))} : k \in KeysOf(g)}
    IN  [l \in {Loc(p[1], p[2]) : p \in live} |->
            LET p == CHOOSE q \in live : Loc(q[1], q[2]) = l
            IN  sources_of(g[p[1]])[p[2]]]

IdlePc == [busy |-> FALSE, key |-> Null, i |-> 0, j |-> 0]

AllIdle == \A w \in Workers : ~wpc[w].busy

Start(w, k) ==
    /\ ~wpc[w].busy
    /\ k \in KeysOf(grouped) \ done
    /\ part[k] = w
    /\ wpc' = [wpc EXCEPT ![w] = [busy |-> TRUE, key |-> k, i |-> 1, j |-> 1]]
    /\ UNCHANGED <<grouped, excl, part, heap, emitted, received, done>>
    /\ UNCHANGED <<resolveVars, pipeVars>>

\* the body of the inner loop up to and including `yield src`
Yield(w) ==
    LET k == wpc[w].key
        i == wpc[w].i
        j == wpc[w].j
    IN  /\ wpc[w].busy
        /\ i <= Len(sources_of(grouped[k]))
        /\ j <= Len(joins_of(grouped[k]))
        /\ LET l   == Loc(k, i)
               new == copy_fields(heap[l], joins_of(grouped[k])[j], excl)
           IN  /\ heap' = [heap EXCEPT ![l] = new]
               /\ emitted' = [emitted EXCEPT ![k] =
                      Append(@, [i |-> i, j |-> j, loc |-> l, snap |-> new])]
        /\ wpc' = [wpc EXCEPT ![w].j = j + 1]
        /\ UNCHANGED <<grouped, excl, part, received, done>>
        /\ UNCHANGED <<resolveVars, pipeVars>>

\* `for join in joins` is exhausted: the next src
NextSrc(w) ==
    LET k == wpc[w].key
    IN  /\ wpc[w].busy
        /\ wpc[w].i <= Len(sources_of(grouped[k]))
        /\ wpc[w].j > Len(joins_of(grouped[k]))
        /\ wpc' = [wpc EXCEPT ![w].i = @ + 1, ![w].j = 1]
        /\ UNCHANGED <<grouped, excl, part, heap, emitted, received, done>>
        /\ UNCHANGED <<resolveVars, pipeVars>>

\* `for src in sources` is exhausted: the generator returns
Finish(w) ==
    LET k == wpc[w].key
    IN  /\ wpc[w].busy
        /\ wpc[w].i > Len(sources_of(grouped[k]))
        /\ done' = done \cup {k}
        /\ wpc' = [wpc EXCEPT ![w] = IdlePc]
        /\ UNCHANGED <<grouped, excl, part, heap, emitted, received>>
        /\ UNCHANGED <<resolveVars, pipeVars>>

\* The step after the ParDo reads the next yielded dict of key k. The generator
\* yields a reference to src and goes on writing to it, so what the reader
\* finds depends on when it reads: right after the yield when the steps are
\* fused, after the generator's later writes when the outputs are buffered.
Receive(k) ==
    /\ Len(received[k]) < Len(emitted[k])
    /\ received' = [received EXCEPT ![k] =
           Append(@, heap[emitted[k][Len(received[k]) + 1].loc])]
    /\ UNCHANGED <<grouped, excl, part, wpc, heap, emitted, done>>
    /\ UNCHANGED <<resolveVars, pipeVars>>

\* the generator alone
Generator ==
    \/ \E w \in Workers, k \in KeysOf(grouped) : Start(w, k)
    \/ \E w \in Workers : Yield(w)
    \/ \E w \in Workers : NextSrc(w)
    \/ \E w \in Workers : Finish(w)

\* the generator and the step that reads what it yields
UnSetCoGroup ==
    \/ Generator
    \/ \E k \in KeysOf(grouped) : Receive(k)

MergeInit(g, ex, p) ==
    /\ grouped = g
    /\ excl = ex
    /\ part = p
    /\ wpc = [w \in Workers |-> IdlePc]
    /\ heap = HeapOf(g)
    /\ emitted = [k \in KeysOf(g) |-> <<>>]
    /\ received = [k \in KeysOf(g) |-> <<>>]
    /\ done = {}

PipeIdle == stage = 0 /\ artists = <<>> /\ credits = <<>> /\ recordings = <<>>

----------------------------------------------------------------------------
(* Spec: one co-grouped element with arbitrary records on both sides.      *)

LeftRecs ==
    { ("a" :> IntV(0)) @@ ("b" :> IntV(0)),
      ("a" :> IntV(0)) @@ ("k" :> IntV(0)) }

RightRecs ==
    { ("k" :> IntV(1)) @@ ("b" :> IntV(1)),
      ("k" :> IntV(1)) @@ ("b" :> IntV(2)),
      ("k" :> IntV(1)) @@ ("c" :> IntV(1)),
      ("b" :> IntV(1)) }

Init ==
    /\ ResolveIdle
    /\ PipeIdle
    /\ \E s \in SeqsUpTo(LeftRecs, MaxSources), j \in SeqsUpTo(RightRecs, MaxJoins),
          ex \in {"k", "b"} :
          /\ Len(s) + Len(j) > 0
          /\ MergeInit([k \in {IntV(1)} |-> [src |-> s, jn |-> j]], ex,
                       [k \in {IntV(1)} |-> "w1"])

Next == UnSetCoGroup

Spec == Init /\ [][Next]_vars

----------------------------------------------------------------------------
(* SpecPart: several keys, routed to independently scheduled workers.      *)

PartKeys == {IntV(1), IntV(2)}

\* the i-th record of key k's left group, the j-th of its right group; the
\* right-hand records of a group alternate between two field sets
PartLeft(k, i)  == ("id" :> k) @@ ("a" :> IntV(i)) @@ ("b" :> IntV(0))
PartRight(k, j) ==
    IF j % 2 = 1 THEN ("k" :> k) @@ ("b" :> IntV(10 * k.n + j))
                 ELSE ("k" :> k) @@ ("c" :> IntV(10 * k.n + j))

InitPart ==
    /\ ResolveIdle
    /\ PipeIdle
    /\ \E ns \in [PartKeys -> 0..MaxSources], nj \in [PartKeys -> 0..MaxJoins],
          p \in [PartKeys -> Workers] :
          /\ \A k \in PartKeys : ns[k] + nj[k] > 0
          /\ MergeInit([k \in PartKeys |->
                          [src |-> [i \in 1..ns[k] |-> PartLeft(k, i)],
                           jn  |-> [j \in 1..nj[k] |-> PartRight(k, j)]]],
                       "k", p)

\* the workers alone: what they yield, without the readers
NextPart == Generator

SpecPart == InitPart /\ [][NextPart]_vars

----------------------------------------------------------------------------
(* SpecResolve: process_artists over bounded tables and rows.              *)

MergeIdle == MergeInit(<<>>, "", <<>>)

InitResolve ==
    /\ PipeIdle
    /\ MergeIdle
    /\ gender \in Tables
    /\ area \in Tables
    /\ row \in ArtistRows
    /\ out = NoOut
    /\ again = NoOut

NextResolve == ProcessArtists \/ ResolveAgain

SpecResolve == InitResolve /\ [][NextResolve]_vars

----------------------------------------------------------------------------
(* SpecPipe: the two merges as main() composes them.                       *)

\* bounds of the pipeline's inputs
MaxArtists    == 2
MaxCredits    == 2
MaxRecordings == 2

process_artist_credit(r) ==
    LET reduced == ("artist_credit" :> r["artist_credit"]) @@ ("artist" :> r["artist"])
    IN  [key |-> reduced["artist"], val |-> reduced]

process_recording(r) ==
    LET reduced == ("recording_name" :> r["name"]) @@ ("length" :> r["length"])
                   @@ ("recording_gid" :> r["gid"]) @@ ("video" :> r["video"])
                   @@ ("artist_credit" :> r["artist_credit"])
    IN  [key |-> reduced["artist_credit"], val |-> reduced]

\* lambda e: (e['artist_credit'], e)
rekey(e) == [key |-> e["artist_credit"], val |-> e]

Vals(s) == [i \in DOMAIN s |-> s[i].val]

\* beam.CoGroupByKey over two keyed collections
CoGroupByKey(left, right) ==
    LET keys == {left[i].key : i \in DOMAIN left} \cup {right[i].key : i \in DOMAIN right}
    IN  [k \in keys |->
            LET HasKey(e) == e.key = k
            IN  [src |-> Vals(SelectSeq(left, HasKey)),
                 jn  |-> Vals(SelectSeq(right, HasKey))]]

RECURSIVE Flatten(_, _)
Flatten(f, ks) ==
    IF ks = {} THEN <<>>
    ELSE LET k == CHOOSE x \in ks : TRUE
         IN  f[k] \o Flatten(f, ks \ {k})

PipeGender == <<process_gender_or_area(IntV(1), StrV("Male"))>>
PipeArea   == <<process_gender_or_area(IntV(1), StrV("Oslo"))>>

ArtistJson(i) ==
    ("id" :> IntV(i)) @@ ("gid" :> StrV(IF i = 1 THEN "g1" ELSE "g2"))
    @@ ("name" :> StrV(IF i = 1 THEN "Bob" ELSE "Eve"))
    @@ ("area" :> IF i = 1 THEN Null ELSE IntV(1)) @@ ("gender" :> IntV(1))

CreditJson(c, a) == ("artist_credit" :> IntV(c)) @@ ("artist" :> IntV(a))

RecordingJson(c, nm) ==
    ("name" :> StrV(nm)) @@ ("length" :> IF nm = "r1" THEN Null ELSE IntV(200))
    @@ ("gid" :> StrV(IF nm = "r1" THEN "rg1" ELSE "rg2"))
    @@ ("video" :> BoolV(nm = "r2")) @@ ("artist_credit" :> IntV(c))

ArtistElems ==
    {[key |-> o.key, val |-> o.rec] :
        o \in {process_artists(ArtistJson(i), PipeGender, PipeArea) : i \in {1, 2}}}
CreditElems ==
    {process_artist_credit(CreditJson(p[1], p[2])) : p \in {<<10, 1>>, <<11, 1>>, <<10, 2>>}}
RecordingElems ==
    {process_recording(RecordingJson(p[1], p[2])) :
        p \in {<<10, "r1">>, <<10, "r2">>, <<11, "r1">>}}

\* a table read in any order: no row twice
RowsUpTo(S, n) ==
    {t \in SeqsUpTo(S, n) : \A i, j \in DOMAIN t : t[i] = t[j] => i = j}

OneWorker(g) == [k \in KeysOf(g) |-> "w1"]

InitPipe ==
    /\ ResolveIdle
    /\ stage = 1
    /\ artists \in RowsUpTo(ArtistElems, MaxArtists)
    /\ credits \in RowsUpTo(CreditElems, MaxCredits)
    /\ recordings \in RowsUpTo(RecordingElems, MaxRecordings)
    /\ LET g == CoGroupByKey(artists, credits)
       IN  MergeInit(g, "artist", OneWorker(g))

AllRead ==
    /\ AllIdle
    /\ done = KeysOf(grouped)
    /\ \A k \in KeysOf(grouped) : Len(received[k]) = Len(emitted[k])

\* what the step after the current ParDo has read, over all keys
Output == Flatten(received, KeysOf(grouped))

\* 'Map artist_credit to dict element', then 'Merge intermitent and recording'
Shuffle ==
    /\ stage = 1
    /\ AllRead
    /\ LET joined == [i \in DOMAIN Output |-> rekey(Output[i])]
           g      == CoGroupByKey(joined, recordings)
       IN  /\ grouped' = g
           /\ excl' = "artist_credit"
           /\ part' = OneWorker(g)
           /\ heap' = HeapOf(g)
           /\ emitted' = [k \in KeysOf(g) |-> <<>>]
           /\ received' = [k \in KeysOf(g) |-> <<>>]
           /\ done' = {}
    /\ stage' = 2
    /\ UNCHANGED <<wpc, artists, credits, recordings>>
    /\ UNCHANGED resolveVars

\* 'Write To BQ': the rows read from the second merge are the table
WriteToBigQuery ==
    /\ stage = 2
    /\ AllRead
    /\ stage' = 3
    /\ UNCHANGED <<artists, credits, recordings>>
    /\ UNCHANGED <<mergeVars, resolveVars>>

NextPipe == UnSetCoGroup \/ Shuffle \/ WriteToBigQuery

SpecPipe == InitPipe /\ [][NextPipe]_vars

----------------------------------------------------------------------------
(* Properties of the merge                                                 *)

Emitted == UNION {{<<k, n>> : n \in DOMAIN emitted[k]} : k \in KeysOf(grouped)}

SrcOf(p)  == grouped[p[1]].src[emitted[p[1]][p[2]].i]
JoinOf(p) == grouped[p[1]].jn[emitted[p[1]][p[2]].j]
SnapOf(p) == emitted[p[1]][p[2]].snap

\* C1: once process() has returned for a key, it has yielded exactly
\* |sources| * |joins| records for it, hence none when either group is empty.
C1_OutputCount ==
    \A k \in done : Len(emitted[k]) = Len(grouped[k].src) * Len(grouped[k].jn)

C1_Witness ==
    \E k \in done :
        /\ Len(grouped[k].src) >= 2
        /\ Len(grouped[k].jn) >= 2
        /\ Len(emitted[k]) >= 4

\* a copy of src with every field of join but ex copied over, join winning
ShallowCopyMerge(src, join, ex) ==
    [f \in DOMAIN src \cup (DOMAIN join \ {ex}) |->
        IF f \in DOMAIN join \ {ex} THEN join[f] ELSE src[f]]

\* C2: the record yielded for a pair (src, join) is the original src with join's
\* fields other than exclude_join_field copied over, and nothing else, whatever
\* joins came before it in the group.
C2_PairRecordIsCopyMerge ==
    \A p \in Emitted : SnapOf(p) = ShallowCopyMerge(SrcOf(p), JoinOf(p), excl)

\* C3: once the merge of a key has yielded all its records, every record it
\* yielded still holds the field values it had when it was yielded.
C3_EmittedRecordsStable ==
    \A p \in Emitted :
        p[1] \in done => heap[emitted[p[1]][p[2]].loc] = SnapOf(p)

\* C5: a yielded record carries every field of the right-hand record other than
\* exclude_join_field with the right-hand value, and its exclude_join_field, if
\* it has one, is the left-hand record's own, at the yield and ever after.
C5_ExcludeFieldNeverFromRight ==
    \A p \in Emitted :
        LET now == heap[emitted[p[1]][p[2]].loc]
        IN  /\ \A f \in DOMAIN JoinOf(p) \ {excl} :
                   f \in DOMAIN SnapOf(p) /\ SnapOf(p)[f] = JoinOf(p)[f]
            /\ \A r \in {SnapOf(p), now} :
                   IF excl \in DOMAIN SrcOf(p)
                   THEN excl \in DOMAIN r /\ r[excl] = SrcOf(p)[excl]
                   ELSE excl \notin DOMAIN r

C5_Witness ==
    \E p \in Emitted :
        /\ excl \in DOMAIN JoinOf(p)
        /\ excl \in DOMAIN SrcOf(p)
        /\ JoinOf(p)[excl] # SrcOf(p)[excl]
        /\ DOMAIN JoinOf(p) \ {excl} # {}
        /\ p[1] \in done

\* C9: whatever the routing of keys to workers and the interleaving of their
\* steps, the records yielded for a key are those one worker yields running
\* process() on that key's element alone.
C9_PartitionIndependent ==
    \A k \in done :
        [n \in DOMAIN emitted[k] |-> emitted[k][n].snap] = process(grouped[k], excl)

C9_Witness ==
    \E k1, k2 \in KeysOf(grouped), w \in Workers :
        /\ k1 \in done
        /\ Len(emitted[k1]) >= 4
        /\ part[k1] # part[k2]
        /\ wpc[w].busy /\ wpc[w].key = k2
        /\ wpc[w].i = 2 /\ wpc[w].j = 2
        /\ Len(emitted[k2]) >= 3

----------------------------------------------------------------------------
(* Properties of the pipeline                                              *)

Count(seq, x) == Cardinality({i \in DOMAIN seq : seq[i] = x})

Combinations ==
    {t \in (DOMAIN artists) \X (DOMAIN credits) \X (DOMAIN recordings) :
        /\ credits[t[2]].val["artist"] = artists[t[1]].val["id"]
        /\ recordings[t[3]].val["artist_credit"] = credits[t[2]].val["artist_credit"]}

\* the artist's fields, the credit row's artist_credit, the recording's fields
RowOf(t) ==
    artists[t[1]].val
    @@ ("artist_credit" :> credits[t[2]].val["artist_credit"])
    @@ Restrict(recordings[t[3]].val, DOMAIN recordings[t[3]].val \ {"artist_credit"})

\* C6: the table holds exactly one row per combination (artist, credit row of
\* that artist, recording of that credit), carrying the artist's fields, that
\* credit's artist_credit and that recording's fields, and no other row.
C6_OneRowPerCombination ==
    stage = 3 =>
        \A x \in {RowOf(t) : t \in Combinations} \cup {Output[i] : i \in DOMAIN Output} :
            Count(Output, x) = Cardinality({t \in Combinations : RowOf(t) = x})

ArtistFields == {"id", "artist_gid", "artist_name", "area", "gender"}

table_schema ==
    {"id", "artist_gid", "artist_name", "area", "gender", "artist_credit",
     "recording_name", "length", "recording_gid", "video"}

----------------------------------------------------------------------------
(* Properties of the resolver                                              *)

Hits(table, v) == {i \in DOMAIN table : table[i].id = v}

Resolved(table, v, res) ==
    IF Hits(table, v) # {} THEN \E i \in Hits(table, v) : res = table[i].name
    ELSE res = v

\* C4: for every value of the field, null and zero included, and for both
\* fields: the field ends as the name of the entry whose id it held, or
\* unchanged when no entry has that id; and no error is raised.
C4_ResolvesEveryValue ==
    (out.status # "none" /\ RawFields \subseteq DOMAIN row) =>
        /\ out.status = "ok"
        /\ Resolved(gender, row["gender"], out.rec["gender"])
        /\ Resolved(area, row["area"], out.rec["area"])

C10_GenderSkippedAreaNot ==
    out.status = "ok" =>
        /\ ~Truthy(row["gender"]) => out.rec["gender"] = row["gender"]
        /\ Truthy(row["gender"]) => Resolved(gender, row["gender"], out.rec["gender"])
        /\ Resolved(area, row["area"], out.rec["area"])

C10_Witness ==
    /\ out.status = "ok"
    /\ row["gender"] = IntV(0) /\ Hits(gender, IntV(0)) # {}
    /\ out.rec["gender"] = IntV(0)
    /\ row["area"] = IntV(0) /\ Hits(area, IntV(0)) # {}
    /\ out.rec["area"].tag = "str"

====
